---- MODULE Spec2Model ----
(***************************************************************************)
(* A model of the websockets package of kuro337/golibs.                    *)
(*                                                                         *)
(* The package holds the envelope-routed server (handlers.go: New,         *)
(* RootSocketHandler, EchoHandler, BroadcastHandler, HealthCheckHandler,   *)
(* Start, BlockUntilReady, Stop, TerminateConnections; Reference.md:       *)
(* Client, AddActiveConnection, RemoveConnection).  Every goroutine that   *)
(* serves one accepted connection is a process whose position is pc[c];    *)
(* the caller of Stop is one more process (pcStop).  The transport         *)
(* (gorilla/websocket) is an external capability: a read yields a frame or *)
(* an error, a write takes time and ends in success or in an error.        *)
(*                                                                         *)
(* The package also holds the route-based server (websockets.go, routes.go:*)
(* NewWsServer, EchoHandler and BroadcastHandler as HTTP routes,           *)
(* BroadcastMessage, RemoveClient, TerminateConnections).  It is modelled  *)
(* over the same state by the actions of SpecRoutes.                       *)
(*                                                                         *)
(* SpecReady is the caller of BlockUntilReady against the server: the      *)
(* envelope-routed one dials the server and writes a health-check          *)
(* envelope, the route-based one GETs /health.                             *)
(*                                                                         *)
(* SpecFrames is the read loop with a record of what each ReadMessage      *)
(* returned.  SpecFair and SpecSlow are the envelope-routed server under   *)
(* the scheduling of its goroutines.  SpecExit is                          *)
(* WaitForExitSignalThenCleanup of utils/cleanup.go.  SpecRegistry is the  *)
(* registry entry by entry: one *Client per call of AddActiveConnection.   *)
(* SpecProbe is BlockUntilReady followed past its return.                  *)
(***************************************************************************)
EXTENDS Integers, FiniteSets, Sequences, TLC

\* ------------------------------------------------------------------ bounds
NConn == 2
MaxFrames == 2

Conns == 1..NConn

\* Lock holders: a connection's goroutine (its number), the caller of Stop,
\* or nobody.
StopProc == 0
NoProc == -1

\* ------------------------------------------------------------ JSON values
\* A decoded JSON value (Go's interface{}): its dynamic kind and its text.
Absent == [kind |-> "absent", val |-> ""]
Str(s) == [kind |-> "string", val |-> s]
Num(s) == [kind |-> "number", val |-> s]

Strings == {"hi"}
PayloadValues == {Str(s) : s \in Strings} \cup {Num("7")}

\* The "type" values whose handler reads the payload, and the others.
PayloadTypes == {Str("echo"), Str("broadcast")}
OtherTypes == {Str("healthcheck"), Str("nope"), Num("1"), Absent}

\* A frame as the peer sent it: bytes that are a JSON object or not.
NotJSON == [json |-> FALSE, type |-> Absent, payload |-> Absent]
Frames == {NotJSON} \cup
          {[json |-> TRUE, type |-> t, payload |-> p] :
              t \in PayloadTypes, p \in PayloadValues} \cup
          {[json |-> TRUE, type |-> t, payload |-> Absent] : t \in OtherTypes}

\* The error kinds ReadMessage returns, by dynamic type.
ReadErrors == {"CloseError", "OpError", "other"}

\* An outbound write on a transport handle.
NoWrite == [to |-> 0, type |-> "", payload |-> ""]
Envelope(t, type, payload) == [to |-> t, type |-> type, payload |-> payload]

VARIABLES
  hosted,          \* who serves the handler: Start's own server or the caller's
  httpServer,      \* s.httpServer: "nil" | "serving" | "shutdown"
  activeClients,   \* s.activeClients: the registry (set of clients)
  muWriter,        \* s.activeClientsMu: the holder of the write side
  muReaders,       \* s.activeClientsMu: the holders of the read side
  Mu,              \* Client.Mu of every client: its holder
  counter,         \* s.counter: the three atomic counters
  pc,              \* position of the goroutine serving connection c
  message,         \* the string payload the running handler was given
  todo,            \* BroadcastHandler: clients its range has yet to produce
  writing,         \* the write each goroutine has in progress
  readErr,         \* the read error a handle keeps returning, "none" if none
  closed,          \* transport handles the server has closed
  pcStop,          \* position of the caller of Stop
  stopTarget,      \* TerminateConnections: the client being removed
  stopRange,       \* TerminateConnections: clients registered when it began
                   \*   and not deleted from the registry since
  stopResult,      \* what the last call of Stop returned
  stopSnapshot,    \* history: the registry when Stop was last called
  attempts,        \* history: writes the running handler began, per target
  failed,          \* history: 1 when the last write of the running handler failed
  route,           \* route-based server: the route each connection came in by
  spawned,         \* BroadcastMessage: goroutines yet to call WriteMessage, per target
  inWrite,         \* BroadcastMessage: goroutines inside WriteMessage, per target
  readyKind,       \* BlockUntilReady: which one runs, "ws" | "http" | "none"
  pcReady,         \* position of the caller of BlockUntilReady
  readyI,          \* BlockUntilReady: the loop variable i
  readyConn,       \* BlockUntilReady: the server side of the connection it dialled
  deferred,        \* BlockUntilReady: deferred RemoveConnection calls not yet run
  readyResult,     \* what BlockUntilReady returns
  inbox,           \* frames BlockUntilReady wrote that the server has yet to read
  peerClosed,      \* connections BlockUntilReady closed at its end
  tried,           \* history: attempts BlockUntilReady began
  succeeded,       \* history: attempts whose dial and write (or GET) succeeded
  lastRead,        \* history: what the last ReadMessage returned, and to whom
  pcExit,          \* position of the caller of WaitForExitSignalThenCleanup
  signalChannel,   \* its signalChannel (buffer of one os.Signal)
  notified,        \* whether signal.Notify registered signalChannel
  ctxDone,         \* whether the context it was given is cancelled
  sig,             \* the signal it received
  cleanupErr,      \* what the cleanup callback returned
  cleanupRan,      \* history: calls of the cleanup callback
  raised,          \* history: signals the process was sent
  clients,         \* s.activeClients entry by entry: the *Client keys
  made,            \* the Clients AddActiveConnection has allocated so far
  written          \* history: writes of the last broadcast, per handle

vars == <<hosted, httpServer, activeClients, muWriter, muReaders, Mu, counter, pc,
          message, todo, writing, readErr, closed, pcStop, stopTarget,
          stopRange, stopResult, stopSnapshot, attempts, failed,
          route, spawned, inWrite, readyKind, pcReady, readyI, readyConn,
          deferred, readyResult, inbox, peerClosed, tried, succeeded,
          lastRead, pcExit, signalChannel, notified, ctxDone, sig, cleanupErr,
          cleanupRan, raised, clients, made, written>>

serverVars == <<hosted, httpServer, activeClients, muWriter, muReaders, Mu, counter>>
connVars == <<pc, message, todo, writing, readErr, closed>>
stopVars == <<pcStop, stopTarget, stopRange, stopResult, stopSnapshot>>
histVars == <<attempts, failed>>
routeVars == <<route, spawned, inWrite>>
handlerVars == <<message, todo, readErr, attempts, failed>>
probeVars == <<readyKind, pcReady, readyI, readyConn, deferred, readyResult,
               inbox, peerClosed, tried, succeeded>>
frameVars == <<lastRead>>
exitVars == <<pcExit, signalChannel, notified, ctxDone, sig, cleanupErr,
              cleanupRan, raised>>
entryVars == <<clients, made, written>>

NoAttempts == [t \in Conns |-> 0]

\* ------------------------------------------------------------------- New
New ==
  /\ httpServer = "nil"
  /\ activeClients = {}
  /\ muWriter = NoProc
  /\ muReaders = {}
  /\ Mu = [c \in Conns |-> NoProc]
  /\ counter = [totalConnections |-> 0, totalMessagesSent |-> 0,
                totalMessagesReceived |-> 0]
  /\ pc = [c \in Conns |-> "idle"]
  /\ message = [c \in Conns |-> ""]
  /\ todo = [c \in Conns |-> {}]
  /\ writing = [c \in Conns |-> NoWrite]
  /\ readErr = [c \in Conns |-> "none"]
  /\ closed = [c \in Conns |-> FALSE]
  /\ pcStop = "idle"
  /\ stopTarget = 0
  /\ stopRange = {}
  /\ stopResult = "none"
  /\ stopSnapshot = {}
  /\ attempts = [c \in Conns |-> NoAttempts]
  /\ failed = [c \in Conns |-> 0]
  /\ route = [c \in Conns |-> ""]
  /\ spawned = [c \in Conns |-> 0]
  /\ inWrite = [c \in Conns |-> 0]

\* BlockUntilReady before its loop began, called by `kind` ("none": not called).
ReadyCalled(kind) ==
  /\ readyKind = kind
  /\ pcReady = IF kind = "none" THEN "idle" ELSE "loop"
  /\ readyI = 0
  /\ readyConn = 0
  /\ deferred = 0
  /\ readyResult = "none"
  /\ inbox = [c \in Conns |-> FALSE]
  /\ peerClosed = [c \in Conns |-> FALSE]
  /\ tried = 0
  /\ succeeded = 0

\* Nothing was read yet: the connection is 0, the message is the nil one.
NoRead == [conn |-> 0, err |-> "none", frame |-> NotJSON]

\* WaitForExitSignalThenCleanup before its first statement ran, or not called.
ExitCalled(called) ==
  /\ pcExit = IF called THEN "called" ELSE "idle"
  /\ signalChannel = <<>>
  /\ notified = FALSE
  /\ ctxDone = FALSE
  /\ sig = "none"
  /\ cleanupErr = "none"
  /\ cleanupRan = 0
  /\ raised = 0

\* The registry of New, entry by entry: make(map[*Client]struct{}).
NoClients ==
  /\ clients = {}
  /\ made = 0
  /\ written = [c \in Conns |-> 0]

Init ==
  /\ NoClients
  /\ hosted \in {"Start", "caller"}
  /\ New
  /\ ReadyCalled("none")
  /\ lastRead = NoRead
  /\ ExitCalled(FALSE)

\* --------------------------------------------------------- sync.RWMutex
\* A write lock that would not wait for the holders of the read side.
LockIgnoringReaders == muWriter = NoProc

\* Lock and RLock of s.activeClientsMu: whether the call returns now.
CanLock == muWriter = NoProc /\ muReaders = {}
CanRLock == muWriter = NoProc

\* ----------------------------------------------------------- AtomicCounter
\* A counter that would stay as it is.
NotIncremented(k) == k

IncrementTotalConnections(k) ==
  [k EXCEPT !.totalConnections = @ + 1]
IncrementTotalMessagesSent(k) ==
  [k EXCEPT !.totalMessagesSent = @ + 1]
IncrementTotalMessagesReceived(k) ==
  [k EXCEPT !.totalMessagesReceived = @ + 1]

\* The writes in progress against the transport handle of connection t.
Writers(t) == {p \in Conns : writing[p].to = t}

\* ------------------------------------------------------------------ Start
\* The handler is served by the server's own http.Server once Start ran,
\* or by an http.Server of the caller (s.httpServer stays nil).
Accepting ==
  \/ hosted = "caller"
  \/ hosted = "Start" /\ httpServer = "serving"

Start ==
  /\ hosted = "Start"
  /\ httpServer = "nil"
  /\ httpServer' = "serving"
  /\ UNCHANGED <<hosted, activeClients, muWriter, muReaders, Mu, counter>>
  /\ UNCHANGED <<connVars, stopVars, histVars>>
  /\ UNCHANGED <<routeVars, probeVars, frameVars, exitVars, entryVars>>

\* -------------------------------------------- UpgradeHTTPConntoWebSockets
\* Connection identities are handed out in order.
NextToAccept(c) == pc[c] = "idle" /\ \A d \in Conns : d < c => pc[d] # "idle"

\* A failed upgrade that would leave an entry behind.
UpgradeFailsRegistered(c) ==
  /\ Accepting
  /\ NextToAccept(c)
  /\ pc' = [pc EXCEPT ![c] = "refused"]
  /\ activeClients' = activeClients \cup {c}
  /\ UNCHANGED <<hosted, httpServer, muWriter, muReaders, Mu, counter>>
  /\ UNCHANGED <<message, todo, writing, readErr, closed>>
  /\ UNCHANGED <<stopVars, histVars>>
  /\ UNCHANGED <<routeVars, probeVars, frameVars, exitVars, entryVars>>

\* s.Upgrader.Upgrade fails: the handler logs and returns.
UpgradeFails(c) ==
  /\ Accepting
  /\ NextToAccept(c)
  /\ pc' = [pc EXCEPT ![c] = "refused"]
  /\ UNCHANGED <<serverVars, message, todo, writing, readErr, closed>>
  /\ UNCHANGED <<stopVars, histVars>>
  /\ UNCHANGED <<routeVars, probeVars, frameVars, exitVars, entryVars>>

\* The registry after AddActiveConnection wrapped conn in a new Client.
RegistryWith(conn) == activeClients \cup {conn}

\* s.AddActiveConnection(conn) under the registry lock, then
\* s.counter.IncrementTotalConnections(); the read loop begins.
AddActiveConnection(c) ==
  /\ CanLock
  /\ activeClients' = RegistryWith(c)
  /\ counter' = IncrementTotalConnections(counter)
  /\ pc' = [pc EXCEPT ![c] = "read"]
  /\ UNCHANGED <<hosted, httpServer, muWriter, muReaders, Mu>>
  /\ UNCHANGED <<message, todo, writing, readErr, closed>>
  /\ UNCHANGED <<stopVars, histVars>>
  /\ UNCHANGED <<routeVars, frameVars, exitVars, entryVars>>

\* s.Upgrader.Upgrade succeeds for a peer.
Upgrade(c) ==
  /\ Accepting
  /\ NextToAccept(c)
  /\ AddActiveConnection(c)
  /\ UNCHANGED probeVars

\* ------------------------------------------------------ handleSocketError
\* The read loop breaks only on an error whose dynamic type is one of the
\* expected ones (*websocket.CloseError, *net.OpError).
ExpectedError(e) == e \in {"CloseError", "OpError"}

\* ------------------------------------------------------------- EnableAll
WSConnHandlers == {"echo", "broadcast", "healthcheck"}

\* A dispatch that would not check that the frame decoded.
RouteWithoutDecoding(f) ==
  IF f.type.kind # "string" THEN "panic"
  ELSE IF f.type.val \in WSConnHandlers THEN f.type.val
  ELSE ""

\* A dispatch that would answer a type it does not know with a health check.
RouteWithDefault(f) ==
  IF ~f.json THEN ""
  ELSE IF f.type.kind # "string" THEN "panic"
  ELSE IF f.type.val \in WSConnHandlers THEN f.type.val
  ELSE "healthcheck"

\* json.Unmarshal into a map, then messageData["type"].(string) and the
\* lookup in WSConnHandlers: the handler to invoke, "" for none, "panic"
\* when the type assertion fails.
Route(f) ==
  IF ~f.json THEN ""
  ELSE IF f.type.kind # "string" THEN "panic"
  ELSE IF f.type.val \in WSConnHandlers THEN f.type.val
  ELSE ""

\* An assertion that would let every payload through.
AnyPayload(v) == TRUE

\* payload.(string)
IsString(v) == v.kind = "string"

\* A reply that would not carry the payload back.
EchoEnvelopeWithoutPayload(c, m) == Envelope(c, "echo", "")

EchoEnvelope(c, m) == Envelope(c, "echo", m)
BroadcastEnvelope(t, m) == Envelope(t, "broadcast", m)
HealthCheckEnvelope(c) == Envelope(c, "healthcheck", "Server is running")

\* What a write on the handle of t can return.
WriteResults(t) == IF closed[t] THEN {FALSE} ELSE BOOLEAN

\* ------------------------------------------------------ RootSocketHandler
\* ReadMessage returned an error.
ReadError(c, e) ==
  /\ pc[c] = "read"
  /\ readErr[c] \in {"none", e}
  /\ IF ExpectedError(e)
       THEN \* break: the deferred RemoveConnection runs
            /\ pc' = [pc EXCEPT ![c] = "rm_lock"]
            /\ UNCHANGED <<counter, readErr>>
       ELSE \* no break: the loop body runs on the nil message, which does
            \* not decode, and the next read returns the same error
            /\ counter.totalMessagesReceived < MaxFrames
            /\ counter' = IncrementTotalMessagesReceived(counter)
            /\ readErr' = [readErr EXCEPT ![c] = e]
            /\ pc' = pc
  /\ UNCHANGED <<hosted, httpServer, activeClients, muWriter, muReaders, Mu>>
  /\ UNCHANGED <<message, todo, writing, closed>>
  /\ UNCHANGED <<stopVars, histVars>>
  /\ UNCHANGED <<routeVars, probeVars, exitVars, entryVars>>

\* A read of the connection of a peer fails.
ReadFails(c, e) ==
  /\ ReadError(c, e)
  /\ UNCHANGED frameVars

\* A read loop that would start the echo handler with `go` and read on.
DispatchDetached(c, f) ==
  /\ pc[c] = "read"
  /\ readErr[c] = "none"
  /\ counter.totalMessagesReceived < MaxFrames
  /\ counter' = IncrementTotalMessagesReceived(counter)
  /\ IF Route(f) = "echo" /\ IsString(f.payload)
       THEN /\ writing' = [writing EXCEPT ![c] = EchoEnvelope(c, f.payload.val)]
            /\ attempts' = [attempts EXCEPT ![c][c] = @ + 1]
       ELSE UNCHANGED <<writing, attempts>>
  /\ UNCHANGED <<pc, message>>
  /\ UNCHANGED <<hosted, httpServer, activeClients, muWriter, muReaders, Mu>>
  /\ UNCHANGED <<todo, readErr, closed, failed>>
  /\ UNCHANGED stopVars
  /\ UNCHANGED <<routeVars, exitVars, entryVars>>

\* ReadMessage returned frame f: count it, decode it, dispatch it.  A handler
\* that writes to its own connection is in WriteMessage when the step ends.
Dispatch(c, f) ==
  /\ pc[c] = "read"
  /\ readErr[c] = "none"
  /\ counter.totalMessagesReceived < MaxFrames
  /\ counter' = IncrementTotalMessagesReceived(counter)
  /\ LET h == Route(f) IN
     CASE h = "panic" ->
            /\ pc' = [pc EXCEPT ![c] = "rm_lock"]
            /\ UNCHANGED <<message, writing, attempts>>
       [] h = "echo" /\ IsString(f.payload) ->
            /\ message' = [message EXCEPT ![c] = f.payload.val]
            /\ writing' = [writing EXCEPT ![c] = EchoEnvelope(c, f.payload.val)]
            /\ attempts' = [attempts EXCEPT ![c][c] = @ + 1]
            /\ pc' = [pc EXCEPT ![c] = "echo_w"]
       [] h = "healthcheck" ->
            /\ writing' = [writing EXCEPT ![c] = HealthCheckEnvelope(c)]
            /\ attempts' = [attempts EXCEPT ![c][c] = @ + 1]
            /\ pc' = [pc EXCEPT ![c] = "hc_w"]
            /\ UNCHANGED message
       [] h = "broadcast" /\ IsString(f.payload) ->
            /\ message' = [message EXCEPT ![c] = f.payload.val]
            /\ pc' = [pc EXCEPT ![c] = "bc_rlock"]
            /\ UNCHANGED <<writing, attempts>>
       [] OTHER ->
            UNCHANGED <<pc, message, writing, attempts>>
  /\ UNCHANGED <<hosted, httpServer, activeClients, muWriter, muReaders, Mu>>
  /\ UNCHANGED <<todo, readErr, closed, failed>>
  /\ UNCHANGED stopVars
  /\ UNCHANGED <<routeVars, exitVars, entryVars>>

\* A peer's frame arrives.
ReadFrame(c, f) ==
  /\ Dispatch(c, f)
  /\ UNCHANGED <<probeVars, frameVars>>

\* -------------------------------------------------------------- handlers
\* What a handler does to the counters once its write returned ok or not.
SentAfterWrite(k, ok) == IncrementTotalMessagesSent(k)

\* EchoHandler and HealthCheckHandler: WriteMessage returns, the error is
\* logged, the counter is incremented.
ReplyWritten(c, ok) ==
  /\ pc[c] \in {"echo_w", "hc_w"}
  /\ ok \in WriteResults(writing[c].to)
  /\ writing' = [writing EXCEPT ![c] = NoWrite]
  /\ counter' = SentAfterWrite(counter, ok)
  /\ failed' = [failed EXCEPT ![c] = IF ok THEN 0 ELSE 1]
  /\ pc' = [pc EXCEPT ![c] = IF pc[c] = "echo_w" THEN "echo_ret" ELSE "hc_ret"]
  /\ UNCHANGED <<hosted, httpServer, activeClients, muWriter, muReaders, Mu>>
  /\ UNCHANGED <<message, todo, readErr, closed, attempts>>
  /\ UNCHANGED stopVars
  /\ UNCHANGED <<routeVars, probeVars, frameVars, exitVars, entryVars>>

\* The handler returns to the read loop.
ReplyReturns(c) ==
  /\ pc[c] \in {"echo_ret", "hc_ret"}
  /\ pc' = [pc EXCEPT ![c] = "read"]
  /\ message' = [message EXCEPT ![c] = ""]
  /\ attempts' = [attempts EXCEPT ![c] = NoAttempts]
  /\ failed' = [failed EXCEPT ![c] = 0]
  /\ UNCHANGED <<serverVars, todo, writing, readErr, closed>>
  /\ UNCHANGED stopVars
  /\ UNCHANGED <<routeVars, probeVars, frameVars, exitVars, entryVars>>

\* A range that would leave the sender out.
RangeWithoutSender(c) == activeClients \ {c}

\* The clients `for client := range s.activeClients` is to produce.
RangeOf(c) == activeClients

\* BroadcastHandler: s.activeClientsMu.RLock(), then the range begins.
BroadcastRLock(c) ==
  /\ pc[c] = "bc_rlock"
  /\ CanRLock
  /\ muReaders' = muReaders \cup {c}
  /\ todo' = [todo EXCEPT ![c] = RangeOf(c)]
  /\ pc' = [pc EXCEPT ![c] = "bc_loop"]
  /\ UNCHANGED <<hosted, httpServer, activeClients, muWriter, Mu, counter>>
  /\ UNCHANGED <<message, writing, readErr, closed>>
  /\ UNCHANGED <<stopVars, histVars>>
  /\ UNCHANGED <<routeVars, probeVars, frameVars, exitVars, entryVars>>

\* The range produces client t: client.Mu.Lock(), WriteJSON begins.
BroadcastWrite(c, t) ==
  /\ pc[c] = "bc_loop"
  /\ t \in todo[c]
  /\ Mu[t] = NoProc
  /\ Mu' = [Mu EXCEPT ![t] = c]
  /\ writing' = [writing EXCEPT ![c] = BroadcastEnvelope(t, message[c])]
  /\ attempts' = [attempts EXCEPT ![c][t] = @ + 1]
  /\ pc' = [pc EXCEPT ![c] = "bc_w"]
  /\ UNCHANGED <<hosted, httpServer, activeClients, muWriter, muReaders, counter>>
  /\ UNCHANGED <<message, todo, readErr, closed, failed>>
  /\ UNCHANGED stopVars
  /\ UNCHANGED <<routeVars, probeVars, frameVars, exitVars, entryVars>>

\* A range that would end at the first failed write.
RangeEndedByError(c, t, ok) == IF ok THEN todo[c] \ {t} ELSE {}

\* The clients the range has yet to produce after the write to t returned.
RangeAfter(c, t, ok) == todo[c] \ {t}

\* WriteJSON returned: log an error, client.Mu.Unlock(), count, next client.
BroadcastWritten(c, ok) ==
  /\ pc[c] = "bc_w"
  /\ ok \in WriteResults(writing[c].to)
  /\ Mu' = [Mu EXCEPT ![writing[c].to] = NoProc]
  /\ counter' = SentAfterWrite(counter, ok)
  /\ failed' = [failed EXCEPT ![c] = IF ok THEN 0 ELSE 1]
  /\ todo' = [todo EXCEPT ![c] = RangeAfter(c, writing[c].to, ok)]
  /\ writing' = [writing EXCEPT ![c] = NoWrite]
  /\ pc' = [pc EXCEPT ![c] = "bc_loop"]
  /\ UNCHANGED <<hosted, httpServer, activeClients, muWriter, muReaders>>
  /\ UNCHANGED <<message, readErr, closed, attempts>>
  /\ UNCHANGED stopVars
  /\ UNCHANGED <<routeVars, probeVars, frameVars, exitVars, entryVars>>

\* The range is over: the deferred RUnlock runs, the handler returns.
BroadcastReturns(c) ==
  /\ pc[c] = "bc_loop"
  /\ todo[c] = {}
  /\ muReaders' = muReaders \ {c}
  /\ pc' = [pc EXCEPT ![c] = "read"]
  /\ message' = [message EXCEPT ![c] = ""]
  /\ attempts' = [attempts EXCEPT ![c] = NoAttempts]
  /\ failed' = [failed EXCEPT ![c] = 0]
  /\ UNCHANGED <<hosted, httpServer, activeClients, muWriter, Mu, counter>>
  /\ UNCHANGED <<todo, writing, readErr, closed>>
  /\ UNCHANGED stopVars
  /\ UNCHANGED <<routeVars, probeVars, frameVars, exitVars, entryVars>>

\* ------------------------------------------------- writes that overlap
\* gorilla/websocket supports one writer at a time on a connection.  It
\* detects a write that overlaps another one as best it can, and then panics
\* ("concurrent write to websocket connection"): a write in progress on a
\* handle another write is in progress on returns, fails, or panics.
Overlapped(c) == Cardinality(Writers(writing[c].to)) > 1

\* WriteMessage panics in EchoHandler or HealthCheckHandler: the handler and
\* the read loop unwind, the deferred RemoveConnection of the read loop is due
\* (net/http recovers the panic of a handler goroutine).
ReplyPanics(c) ==
  /\ pc[c] \in {"echo_w", "hc_w"}
  /\ Overlapped(c)
  /\ writing' = [writing EXCEPT ![c] = NoWrite]
  /\ pc' = [pc EXCEPT ![c] = "rm_lock"]
  /\ message' = [message EXCEPT ![c] = ""]
  /\ attempts' = [attempts EXCEPT ![c] = NoAttempts]
  /\ failed' = [failed EXCEPT ![c] = 0]
  /\ UNCHANGED <<serverVars, todo, readErr, closed>>
  /\ UNCHANGED stopVars
  /\ UNCHANGED <<routeVars, probeVars, frameVars, exitVars, entryVars>>

\* WriteJSON panics in BroadcastHandler: client.Mu.Unlock() is not reached,
\* the deferred RUnlock runs, then the deferred RemoveConnection of the read
\* loop is due.
BroadcastPanics(c) ==
  /\ pc[c] = "bc_w"
  /\ Overlapped(c)
  /\ muReaders' = muReaders \ {c}
  /\ writing' = [writing EXCEPT ![c] = NoWrite]
  /\ todo' = [todo EXCEPT ![c] = {}]
  /\ pc' = [pc EXCEPT ![c] = "rm_lock"]
  /\ message' = [message EXCEPT ![c] = ""]
  /\ attempts' = [attempts EXCEPT ![c] = NoAttempts]
  /\ failed' = [failed EXCEPT ![c] = 0]
  /\ UNCHANGED <<hosted, httpServer, activeClients, muWriter, Mu, counter>>
  /\ UNCHANGED <<readErr, closed>>
  /\ UNCHANGED stopVars
  /\ UNCHANGED <<routeVars, probeVars, frameVars, exitVars, entryVars>>

\* ------------------------------------------------------ RemoveConnection
\* The clients of the registry that wrap conn.
ConnsToRemove(conn) == {client \in activeClients : client = conn}

\* The registry after the deletion loop.
RegistryWithout(conn) == activeClients \ ConnsToRemove(conn)

\* wg.Wait(): every client to remove had its Mu locked and unlocked.
Drained(conn) == \A client \in ConnsToRemove(conn) : Mu[client] = NoProc

\* The deferred s.RemoveConnection(conn) of the read loop: Lock.
RemoveLock(c) ==
  /\ pc[c] = "rm_lock"
  /\ CanLock
  /\ muWriter' = c
  /\ pc' = [pc EXCEPT ![c] = "rm_hold"]
  /\ UNCHANGED <<hosted, httpServer, activeClients, muReaders, Mu, counter>>
  /\ UNCHANGED <<message, todo, writing, readErr, closed>>
  /\ UNCHANGED <<stopVars, histVars>>
  /\ UNCHANGED <<routeVars, probeVars, frameVars, exitVars, entryVars>>

\* ... wait for the pending writes, delete, Unlock, return.
RemoveDelete(c) ==
  /\ pc[c] = "rm_hold"
  /\ Drained(c)
  /\ activeClients' = RegistryWithout(c)
  /\ muWriter' = NoProc
  /\ pc' = [pc EXCEPT ![c] = "done"]
  /\ stopRange' = stopRange \cap RegistryWithout(c)
  /\ UNCHANGED <<hosted, httpServer, muReaders, Mu, counter>>
  /\ UNCHANGED <<message, todo, writing, readErr, closed>>
  /\ UNCHANGED <<pcStop, stopTarget, stopResult, stopSnapshot, histVars>>
  /\ UNCHANGED <<routeVars, probeVars, frameVars, exitVars, entryVars>>

\* ------------------------------------------------------------------- Stop
\* What s.httpServer.Shutdown returns.  Every connection of the model is a
\* hijacked one, which Shutdown does not wait for: the 5 s context never
\* expires on their account.
ShutdownResults == {"nil"}

\* A guard that would let every call through.
AlwaysStarted == TRUE

\* Whether Stop goes on to TerminateConnections (s.httpServer != nil).
Started == httpServer # "nil"

\* s.httpServer == nil: the error is returned and nothing else is done.
StopNotStarted ==
  /\ pcStop \in {"idle", "returned"}
  /\ ~Started
  /\ stopResult' = "server has not been started"
  /\ pcStop' = "returned"
  /\ UNCHANGED <<stopTarget, stopRange, stopSnapshot>>
  /\ UNCHANGED <<serverVars, connVars, histVars>>
  /\ UNCHANGED <<routeVars, probeVars, frameVars, exitVars, entryVars>>

\* Stop goes on to TerminateConnections: Lock, collect connectionsToRemove,
\* Unlock; then the range over s.activeClients begins, with no lock held.
TerminateConnections ==
  /\ pcStop \in {"idle", "returned"}
  /\ Started
  /\ stopResult \notin ShutdownResults   \* Stop has not shut the server down
  /\ CanLock
  /\ stopRange' = activeClients
  /\ stopSnapshot' = activeClients
  /\ stopResult' = "none"
  /\ pcStop' = "term_loop"
  /\ UNCHANGED stopTarget
  /\ UNCHANGED <<serverVars, connVars, histVars>>
  /\ UNCHANGED <<routeVars, probeVars, frameVars, exitVars, entryVars>>

\* The range produces client t (an entry added since it began may or may not
\* be produced): s.RemoveConnection(client.Conn) takes the registry lock.
TerminateRemoveLock(t) ==
  /\ pcStop = "term_loop"
  /\ t \in activeClients
  /\ CanLock
  /\ muWriter' = StopProc
  /\ stopTarget' = t
  /\ pcStop' = "term_hold"
  /\ UNCHANGED <<stopRange, stopResult, stopSnapshot>>
  /\ UNCHANGED <<hosted, httpServer, activeClients, muReaders, Mu, counter>>
  /\ UNCHANGED <<connVars, histVars>>
  /\ UNCHANGED <<routeVars, probeVars, frameVars, exitVars, entryVars>>

TerminateRemoveDelete ==
  /\ pcStop = "term_hold"
  /\ Drained(stopTarget)
  /\ activeClients' = RegistryWithout(stopTarget)
  /\ muWriter' = NoProc
  /\ stopTarget' = 0
  /\ stopRange' = stopRange \cap RegistryWithout(stopTarget)
  /\ pcStop' = "term_loop"
  /\ UNCHANGED <<stopResult, stopSnapshot>>
  /\ UNCHANGED <<hosted, httpServer, muReaders, Mu, counter>>
  /\ UNCHANGED <<connVars, histVars>>
  /\ UNCHANGED <<routeVars, probeVars, frameVars, exitVars, entryVars>>

\* The range is over once every entry it began with was produced.
RangeOver == stopRange = {}

\* PrintStats, then s.httpServer.Shutdown with the 5 s timeout: the listener
\* closes, and Stop returns what Shutdown returned.
Shutdown(err) ==
  /\ pcStop = "term_loop"
  /\ RangeOver
  /\ httpServer' = "shutdown"
  /\ stopResult' = err
  /\ pcStop' = "returned"
  /\ UNCHANGED <<stopTarget, stopRange, stopSnapshot>>
  /\ UNCHANGED <<hosted, activeClients, muWriter, muReaders, Mu, counter>>
  /\ UNCHANGED <<connVars, histVars>>
  /\ UNCHANGED <<routeVars, probeVars, frameVars, exitVars, entryVars>>

\* ------------------------------------------------------------------- Next
Next ==
  \/ Start
  \/ \E c \in Conns : UpgradeFails(c)
  \/ \E c \in Conns : Upgrade(c)
  \/ \E c \in Conns, e \in ReadErrors : ReadFails(c, e)
  \/ \E c \in Conns, f \in Frames : ReadFrame(c, f)
  \/ \E c \in Conns, ok \in BOOLEAN : ReplyWritten(c, ok)
  \/ \E c \in Conns : ReplyReturns(c)
  \/ \E c \in Conns : BroadcastRLock(c)
  \/ \E c \in Conns, t \in Conns : BroadcastWrite(c, t)
  \/ \E c \in Conns, ok \in BOOLEAN : BroadcastWritten(c, ok)
  \/ \E c \in Conns : BroadcastReturns(c)
  \/ \E c \in Conns : ReplyPanics(c)
  \/ \E c \in Conns : BroadcastPanics(c)
  \/ \E c \in Conns : RemoveLock(c)
  \/ \E c \in Conns : RemoveDelete(c)
  \/ StopNotStarted
  \/ TerminateConnections
  \/ \E t \in Conns : TerminateRemoveLock(t)
  \/ TerminateRemoveDelete
  \/ \E err \in ShutdownResults : Shutdown(err)

Spec == Init /\ [][Next]_vars

\* The Go scheduler runs every goroutine that can run: a write in progress
\* comes to an end, a handler that can go on does, a Lock or RLock that can
\* return does.  Nothing is assumed of the peers or of the callers of Start
\* and Stop.
Progress ==
  /\ \A c \in Conns :
       /\ WF_vars(\E ok \in BOOLEAN : ReplyWritten(c, ok))
       /\ WF_vars(ReplyReturns(c))
       /\ WF_vars(BroadcastRLock(c))
       /\ WF_vars(\E t \in Conns : BroadcastWrite(c, t))
       /\ WF_vars(\E ok \in BOOLEAN : BroadcastWritten(c, ok))
       /\ WF_vars(BroadcastReturns(c))
       /\ WF_vars(RemoveLock(c))
       /\ WF_vars(RemoveDelete(c))
  /\ WF_vars(\E t \in Conns : TerminateRemoveLock(t))
  /\ WF_vars(TerminateRemoveDelete)
  /\ WF_vars(\E err \in ShutdownResults : Shutdown(err))

SpecFair == Init /\ [][Next]_vars /\ Progress

\* A peer that does not read: a write on its connection may stay blocked.
SlowPeer == 1

\* Every goroutine runs, but a write to the slow peer need not end.
ProgressButSlowPeer ==
  /\ \A c \in Conns :
       /\ WF_vars(\E ok \in BOOLEAN :
                    ReplyWritten(c, ok) /\ writing[c].to # SlowPeer)
       /\ WF_vars(ReplyReturns(c))
       /\ WF_vars(BroadcastRLock(c))
       /\ WF_vars(\E t \in Conns : BroadcastWrite(c, t))
       /\ WF_vars(\E ok \in BOOLEAN :
                    BroadcastWritten(c, ok) /\ writing[c].to # SlowPeer)
       /\ WF_vars(BroadcastReturns(c))
       /\ WF_vars(RemoveLock(c))
       /\ WF_vars(RemoveDelete(c))
  /\ WF_vars(\E t \in Conns : TerminateRemoveLock(t))
  /\ WF_vars(TerminateRemoveDelete)
  /\ WF_vars(\E err \in ShutdownResults : Shutdown(err))

SpecSlow == Init /\ [][Next]_vars /\ ProgressButSlowPeer

\* ===================================================== route-based server
\* websockets.go and routes.go: every route upgrades its own connection and
\* runs its own read loop; the registry maps the bare *websocket.Conn.

Routes == {"/echo", "/broadcast"}

\* The writes in progress against the transport handle of connection t.
RouteWriters(t) == inWrite[t] + (IF writing[t] # NoWrite THEN 1 ELSE 0)

\* UpgradeHTTPtoWS fails: the route handler logs and returns.
RouteUpgradeFails(c) ==
  /\ Accepting
  /\ NextToAccept(c)
  /\ pc' = [pc EXCEPT ![c] = "refused"]
  /\ UNCHANGED <<serverVars, closed, writing, stopVars, routeVars>>
  /\ UNCHANGED <<handlerVars, probeVars, frameVars, exitVars, entryVars>>

\* UpgradeHTTPtoWS: Lock, s.activeClients[conn] = true, Unlock, then
\* atomic.AddInt64(&s.totalConnections, 1); the read loop of the route begins.
UpgradeHTTPtoWS(c, r) ==
  /\ Accepting
  /\ NextToAccept(c)
  /\ CanLock
  /\ activeClients' = activeClients \cup {c}
  /\ counter' = IncrementTotalConnections(counter)
  /\ route' = [route EXCEPT ![c] = r]
  /\ pc' = [pc EXCEPT ![c] = "read"]
  /\ UNCHANGED <<hosted, httpServer, muWriter, muReaders, Mu>>
  /\ UNCHANGED <<closed, writing, stopVars, spawned, inWrite>>
  /\ UNCHANGED <<handlerVars, probeVars, frameVars, exitVars, entryVars>>

\* ReadMessage returned an error (the peer went away, or the handle was
\* closed): the route handler returns and its deferred RemoveClient is due.
RouteReadFails(c) ==
  /\ pc[c] = "read"
  /\ pc' = [pc EXCEPT ![c] = "rm_lock"]
  /\ UNCHANGED <<serverVars, closed, writing, stopVars, routeVars>>
  /\ UNCHANGED <<handlerVars, probeVars, frameVars, exitVars, entryVars>>

\* EchoHandler read a frame: count it, WriteMessage(messageType, p) begins.
RouteEchoRead(c, data) ==
  /\ pc[c] = "read"
  /\ route[c] = "/echo"
  /\ ~closed[c]
  /\ counter.totalMessagesReceived < MaxFrames
  /\ counter' = IncrementTotalMessagesReceived(counter)
  /\ writing' = [writing EXCEPT ![c] = Envelope(c, "raw", data)]
  /\ pc' = [pc EXCEPT ![c] = "echo_w"]
  /\ UNCHANGED <<hosted, httpServer, activeClients, muWriter, muReaders, Mu>>
  /\ UNCHANGED <<closed, stopVars, routeVars>>
  /\ UNCHANGED <<handlerVars, probeVars, frameVars, exitVars, entryVars>>

\* WriteMessage returned: on an error the handler returns, else it counts the
\* message and reads on.
RouteEchoWritten(c, ok) ==
  /\ pc[c] = "echo_w"
  /\ ok \in WriteResults(c)
  /\ writing' = [writing EXCEPT ![c] = NoWrite]
  /\ counter' = IF ok THEN IncrementTotalMessagesSent(counter) ELSE counter
  /\ pc' = [pc EXCEPT ![c] = IF ok THEN "read" ELSE "rm_lock"]
  /\ UNCHANGED <<hosted, httpServer, activeClients, muWriter, muReaders, Mu>>
  /\ UNCHANGED <<closed, stopVars, routeVars>>
  /\ UNCHANGED <<handlerVars, probeVars, frameVars, exitVars, entryVars>>

\* The goroutines BroadcastMessage leaves behind: one more per registered
\* connection.
SpawnedBy(registry) ==
  [t \in Conns |-> IF t \in registry THEN spawned[t] + 1 ELSE spawned[t]]

\* BroadcastHandler read a frame: count it, then BroadcastMessage: RLock,
\* one `go func` per registered connection, RUnlock.
BroadcastMessage(c, data) ==
  /\ pc[c] = "read"
  /\ route[c] = "/broadcast"
  /\ ~closed[c]
  /\ counter.totalMessagesReceived < MaxFrames
  /\ CanRLock
  /\ counter' = IncrementTotalMessagesReceived(counter)
  /\ spawned' = SpawnedBy(activeClients)
  /\ UNCHANGED <<hosted, httpServer, activeClients, muWriter, muReaders, Mu>>
  /\ UNCHANGED <<pc, closed, writing, stopVars, route, inWrite>>
  /\ UNCHANGED <<handlerVars, probeVars, frameVars, exitVars, entryVars>>

\* A goroutine of BroadcastMessage calls c.WriteMessage on connection t.
BroadcastGoWrite(t) ==
  /\ spawned[t] > 0
  /\ spawned' = [spawned EXCEPT ![t] = @ - 1]
  /\ inWrite' = [inWrite EXCEPT ![t] = @ + 1]
  /\ UNCHANGED <<serverVars, pc, closed, writing, stopVars, route>>
  /\ UNCHANGED <<handlerVars, probeVars, frameVars, exitVars, entryVars>>

\* Its WriteMessage returned: an error is printed, a success is counted.
BroadcastGoWritten(t, ok) ==
  /\ inWrite[t] > 0
  /\ ok \in WriteResults(t)
  /\ inWrite' = [inWrite EXCEPT ![t] = @ - 1]
  /\ counter' = IF ok THEN IncrementTotalMessagesSent(counter) ELSE counter
  /\ UNCHANGED <<hosted, httpServer, activeClients, muWriter, muReaders, Mu>>
  /\ UNCHANGED <<pc, closed, writing, stopVars, route, spawned>>
  /\ UNCHANGED <<handlerVars, probeVars, frameVars, exitVars, entryVars>>

\* RemoveClient: Lock, delete(s.activeClients, conn), Unlock.
RemoveClient(c) ==
  /\ pc[c] = "rm_lock"
  /\ CanLock
  /\ activeClients' = activeClients \ {c}
  /\ stopRange' = stopRange \ {c}
  /\ pc' = [pc EXCEPT ![c] = "done"]
  /\ UNCHANGED <<hosted, httpServer, muWriter, muReaders, Mu, counter>>
  /\ UNCHANGED <<closed, writing, routeVars>>
  /\ UNCHANGED <<pcStop, stopTarget, stopResult, stopSnapshot>>
  /\ UNCHANGED <<handlerVars, probeVars, frameVars, exitVars, entryVars>>

\* Stop with s.httpServer == nil.
RouteStopNotStarted ==
  /\ pcStop \in {"idle", "returned"}
  /\ ~Started
  /\ stopResult' = "server has not been started"
  /\ pcStop' = "returned"
  /\ UNCHANGED <<stopTarget, stopRange, stopSnapshot>>
  /\ UNCHANGED <<serverVars, pc, closed, writing, routeVars>>
  /\ UNCHANGED <<handlerVars, probeVars, frameVars, exitVars, entryVars>>

\* Stop goes on to TerminateConnections: the range over s.activeClients
\* begins, with no lock held.
RouteTerminateConnections ==
  /\ pcStop \in {"idle", "returned"}
  /\ Started
  /\ stopResult \notin ShutdownResults
  /\ stopRange' = activeClients
  /\ stopSnapshot' = activeClients
  /\ stopResult' = "none"
  /\ pcStop' = "term_loop"
  /\ UNCHANGED stopTarget
  /\ UNCHANGED <<serverVars, pc, closed, writing, routeVars>>
  /\ UNCHANGED <<handlerVars, probeVars, frameVars, exitVars, entryVars>>

\* The range produces connection t (an entry added since it began may or may
\* not be produced): conn.Close().
RouteTerminateClose(t) ==
  /\ pcStop = "term_loop"
  /\ \/ t \in stopRange
     \/ t \in activeClients \ stopSnapshot /\ ~closed[t]
  /\ closed' = [closed EXCEPT ![t] = TRUE]
  /\ stopRange' = stopRange \ {t}
  /\ UNCHANGED <<pcStop, stopTarget, stopResult, stopSnapshot>>
  /\ UNCHANGED <<serverVars, pc, writing, routeVars>>
  /\ UNCHANGED <<handlerVars, probeVars, frameVars, exitVars, entryVars>>

\* The statistics are logged, s.httpServer.Shutdown closes the listener.
RouteShutdown(err) ==
  /\ pcStop = "term_loop"
  /\ RangeOver
  /\ httpServer' = "shutdown"
  /\ stopResult' = err
  /\ pcStop' = "returned"
  /\ UNCHANGED <<stopTarget, stopRange, stopSnapshot>>
  /\ UNCHANGED <<hosted, activeClients, muWriter, muReaders, Mu, counter>>
  /\ UNCHANGED <<pc, closed, writing, routeVars>>
  /\ UNCHANGED <<handlerVars, probeVars, frameVars, exitVars, entryVars>>

\* The bytes of a frame: the route-based server does not decode them.
FrameData == {"hi"}

NextRoutes ==
  \/ Start
  \/ \E c \in Conns : RouteUpgradeFails(c)
  \/ \E c \in Conns, r \in Routes : UpgradeHTTPtoWS(c, r)
  \/ \E c \in Conns : RouteReadFails(c)
  \/ \E c \in Conns, d \in FrameData : RouteEchoRead(c, d)
  \/ \E c \in Conns, ok \in BOOLEAN : RouteEchoWritten(c, ok)
  \/ \E c \in Conns, d \in FrameData : BroadcastMessage(c, d)
  \/ \E t \in Conns : BroadcastGoWrite(t)
  \/ \E t \in Conns, ok \in BOOLEAN : BroadcastGoWritten(t, ok)
  \/ \E c \in Conns : RemoveClient(c)
  \/ RouteStopNotStarted
  \/ RouteTerminateConnections
  \/ \E t \in Conns : RouteTerminateClose(t)
  \/ \E err \in ShutdownResults : RouteShutdown(err)

SpecRoutes == Init /\ [][NextRoutes]_vars

\* ========================================================= BlockUntilReady
\* handlers.go: the caller dials the server's own address and writes a
\* health-check envelope.  websockets.go: the caller GETs /health.

MaxRetries == 10

\* A loop that would run one more round.
LoopGoesOnPastMax(i) == i <= MaxRetries

\* `i < maxRetries`: the loop goes on to one more attempt.
LoopGoesOn(i) == i < MaxRetries

\* The handle Dial returned to the caller (nil when it failed): the client end
\* of the connection, which no entry of the registry wraps.
DialerConn == NConn + 1

\* map[string]interface{}{"type": "healthcheck"} as WriteJSON sends it.
HealthCheckReq == [json |-> TRUE, type |-> Str("healthcheck"), payload |-> Absent]

NotReady == "server not ready after 10 attempts"

\* What a probe of the listener can return: success needs the listener.
ProbeResults == IF Accepting THEN BOOLEAN ELSE {FALSE}

\* time.Sleep, then Dial fails: the deferred RemoveConnection(nil) is
\* registered, the failure is logged, `continue`.
ReadyDialFails ==
  /\ readyKind = "ws"
  /\ pcReady = "loop"
  /\ LoopGoesOn(readyI)
  /\ FALSE \in ProbeResults
  /\ tried' = tried + 1
  /\ deferred' = deferred + 1
  /\ readyI' = readyI + 1
  /\ UNCHANGED <<readyKind, pcReady, readyConn, readyResult, inbox, peerClosed,
                 succeeded>>
  /\ UNCHANGED <<serverVars, connVars, stopVars, histVars, routeVars>>
  /\ UNCHANGED <<frameVars, exitVars, entryVars>>

\* time.Sleep, then Dial succeeds: the server upgraded and registered the
\* connection; the deferred RemoveConnection(conn) is registered.
ReadyDial(c) ==
  /\ readyKind = "ws"
  /\ pcReady = "loop"
  /\ LoopGoesOn(readyI)
  /\ TRUE \in ProbeResults
  /\ NextToAccept(c)
  /\ AddActiveConnection(c)
  /\ tried' = tried + 1
  /\ deferred' = deferred + 1
  /\ readyConn' = c
  /\ pcReady' = "write"
  /\ UNCHANGED <<readyKind, readyI, readyResult, inbox, peerClosed, succeeded>>

\* conn.WriteJSON(healthCheckReq) returns: on an error conn.Close() and
\* `continue`, else `return nil`.
ReadyWrite(ok) ==
  /\ pcReady = "write"
  /\ IF ok
       THEN /\ inbox' = [inbox EXCEPT ![readyConn] = TRUE]
            /\ succeeded' = succeeded + 1
            /\ readyResult' = "nil"
            /\ pcReady' = "defer"
            /\ UNCHANGED <<readyI, peerClosed>>
       ELSE /\ peerClosed' = [peerClosed EXCEPT ![readyConn] = TRUE]
            /\ readyI' = readyI + 1
            /\ pcReady' = "loop"
            /\ UNCHANGED <<inbox, succeeded, readyResult>>
  /\ UNCHANGED <<readyKind, readyConn, deferred, tried>>
  /\ UNCHANGED <<serverVars, connVars, stopVars, histVars, routeVars>>
  /\ UNCHANGED <<frameVars, exitVars, entryVars>>

\* websockets.go: time.Sleep, then http.Get(".../health"): status 200 returns
\* nil, anything else is one more round of the loop.
ReadyGet(ok) ==
  /\ readyKind = "http"
  /\ pcReady = "loop"
  /\ LoopGoesOn(readyI)
  /\ ok \in ProbeResults
  /\ tried' = tried + 1
  /\ IF ok
       THEN /\ succeeded' = succeeded + 1
            /\ readyResult' = "nil"
            /\ pcReady' = "defer"
            /\ UNCHANGED readyI
       ELSE /\ readyI' = readyI + 1
            /\ UNCHANGED <<succeeded, readyResult, pcReady>>
  /\ UNCHANGED <<readyKind, readyConn, deferred, inbox, peerClosed>>
  /\ UNCHANGED <<serverVars, connVars, stopVars, histVars, routeVars>>
  /\ UNCHANGED <<frameVars, exitVars, entryVars>>

\* The loop is over: return fmt.Errorf("server not ready after %d attempts").
ReadyExhausted ==
  /\ pcReady = "loop"
  /\ ~LoopGoesOn(readyI)
  /\ readyResult' = NotReady
  /\ pcReady' = "defer"
  /\ UNCHANGED <<readyKind, readyI, readyConn, deferred, inbox, peerClosed,
                 tried, succeeded>>
  /\ UNCHANGED <<serverVars, connVars, stopVars, histVars, routeVars>>
  /\ UNCHANGED <<frameVars, exitVars, entryVars>>

\* One deferred s.RemoveConnection(conn) runs on the dialer's handle: Lock,
\* nothing to remove, Unlock.
ReadyDeferred ==
  /\ pcReady = "defer"
  /\ deferred > 0
  /\ CanLock
  /\ Drained(DialerConn)
  /\ activeClients' = RegistryWithout(DialerConn)
  /\ deferred' = deferred - 1
  /\ UNCHANGED <<readyKind, pcReady, readyI, readyConn, readyResult, inbox,
                 peerClosed, tried, succeeded>>
  /\ UNCHANGED <<hosted, httpServer, muWriter, muReaders, Mu, counter>>
  /\ UNCHANGED <<connVars, stopVars, histVars, routeVars>>
  /\ UNCHANGED <<frameVars, exitVars, entryVars>>

\* BlockUntilReady returns to its caller.
ReadyReturns ==
  /\ pcReady = "defer"
  /\ deferred = 0
  /\ pcReady' = "returned"
  /\ UNCHANGED <<readyKind, readyI, readyConn, deferred, readyResult, inbox,
                 peerClosed, tried, succeeded>>
  /\ UNCHANGED <<serverVars, connVars, stopVars, histVars, routeVars>>
  /\ UNCHANGED <<frameVars, exitVars, entryVars>>

\* The read loop of a dialled connection reads the health-check envelope.
ProbeRead(c) ==
  /\ inbox[c]
  /\ Dispatch(c, HealthCheckReq)
  /\ inbox' = [inbox EXCEPT ![c] = FALSE]
  /\ UNCHANGED <<readyKind, pcReady, readyI, readyConn, deferred, readyResult,
                 peerClosed, tried, succeeded>>
  /\ UNCHANGED frameVars

\* The read loop of a connection the dialer closed gets a read error.
ProbeReadFails(c, e) ==
  /\ peerClosed[c]
  /\ ReadFails(c, e)

InitReady ==
  /\ NoClients
  /\ hosted = "Start"
  /\ New
  /\ \E kind \in {"ws", "http"} : ReadyCalled(kind)
  /\ lastRead = NoRead
  /\ ExitCalled(FALSE)

NextReady ==
  \/ Start
  \/ ReadyDialFails
  \/ \E c \in Conns : ReadyDial(c)
  \/ \E ok \in BOOLEAN : ReadyWrite(ok)
  \/ \E ok \in BOOLEAN : ReadyGet(ok)
  \/ ReadyExhausted
  \/ ReadyDeferred
  \/ ReadyReturns
  \/ \E c \in Conns : ProbeRead(c)
  \/ \E c \in Conns, e \in ReadErrors : ProbeReadFails(c, e)
  \/ \E c \in Conns, ok \in BOOLEAN : ReplyWritten(c, ok)
  \/ \E c \in Conns : ReplyReturns(c)
  \/ \E c \in Conns : RemoveLock(c)
  \/ \E c \in Conns : RemoveDelete(c)

SpecReady == InitReady /\ [][NextReady]_vars

\* ============================================================ the read loop
\* RootSocketHandler served by an http.Server of the caller, with a record of
\* what each ReadMessage returned: the frame the peer sent, or the error and
\* the nil message that comes with it.

ReadOf(c, e, f) == [conn |-> c, err |-> e, frame |-> f]

\* conn.ReadMessage() returns a frame to the read loop of c.
ObservedReadFrame(c, f) ==
  /\ Dispatch(c, f)
  /\ lastRead' = ReadOf(c, "none", f)
  /\ UNCHANGED probeVars

\* conn.ReadMessage() returns an error to the read loop of c.
ObservedReadFails(c, e) ==
  /\ ReadError(c, e)
  /\ lastRead' = ReadOf(c, e, NotJSON)

InitFrames ==
  /\ NoClients
  /\ hosted = "caller"
  /\ New
  /\ ReadyCalled("none")
  /\ lastRead = NoRead
  /\ ExitCalled(FALSE)

NextFrames ==
  \/ \E c \in Conns : UpgradeFails(c)
  \/ \E c \in Conns : Upgrade(c)
  \/ \E c \in Conns, e \in ReadErrors : ObservedReadFails(c, e)
  \/ \E c \in Conns, f \in Frames : ObservedReadFrame(c, f)
  \/ \E c \in Conns, ok \in BOOLEAN : ReplyWritten(c, ok)
  \/ \E c \in Conns : ReplyReturns(c)
  \/ \E c \in Conns : BroadcastRLock(c)
  \/ \E c \in Conns, t \in Conns : BroadcastWrite(c, t)
  \/ \E c \in Conns, ok \in BOOLEAN : BroadcastWritten(c, ok)
  \/ \E c \in Conns : BroadcastReturns(c)
  \/ \E c \in Conns : ReplyPanics(c)
  \/ \E c \in Conns : BroadcastPanics(c)
  \/ \E c \in Conns : RemoveLock(c)
  \/ \E c \in Conns : RemoveDelete(c)

SpecFrames == InitFrames /\ [][NextFrames]_vars

\* ============================================ WaitForExitSignalThenCleanup
\* utils/cleanup.go: the caller hands over a cleanup callback and a context;
\* the process is sent signals and the owner of the context may cancel it.

MaxSignals == 3

\* os.Interrupt and syscall.SIGTERM.
Signals == {"interrupt", "SIGTERM"}

\* What the cleanup callback can return.
CleanupResults == {"nil", "error"}

\* signalChannel := make(chan os.Signal, 1); signal.Notify(signalChannel, ...).
ExitNotify ==
  /\ pcExit = "called"
  /\ notified' = TRUE
  /\ pcExit' = "wait"
  /\ UNCHANGED <<signalChannel, ctxDone, sig, cleanupErr, cleanupRan, raised>>
  /\ UNCHANGED <<serverVars, connVars, stopVars, histVars, routeVars>>
  /\ UNCHANGED <<probeVars, frameVars, entryVars>>

\* The channel after package signal sent sg to it without blocking: a signal
\* that finds the buffer full is dropped.
Delivered(sg) ==
  IF Len(signalChannel) < 1 THEN Append(signalChannel, sg) ELSE signalChannel

\* The process is sent sg.  Before signal.Notify the default disposition ends
\* the process.
Raise(sg) ==
  /\ pcExit \notin {"idle", "killed"}
  /\ raised < MaxSignals
  /\ raised' = raised + 1
  /\ IF notified
       THEN signalChannel' = Delivered(sg) /\ UNCHANGED pcExit
       ELSE pcExit' = "killed" /\ UNCHANGED signalChannel
  /\ UNCHANGED <<notified, ctxDone, sig, cleanupErr, cleanupRan>>
  /\ UNCHANGED <<serverVars, connVars, stopVars, histVars, routeVars>>
  /\ UNCHANGED <<probeVars, frameVars, entryVars>>

\* The owner of the context cancels it.
Cancel ==
  /\ pcExit \notin {"idle", "killed"}
  /\ ~ctxDone
  /\ ctxDone' = TRUE
  /\ UNCHANGED <<pcExit, signalChannel, notified, sig, cleanupErr, cleanupRan,
                 raised>>
  /\ UNCHANGED <<serverVars, connVars, stopVars, histVars, routeVars>>
  /\ UNCHANGED <<probeVars, frameVars, entryVars>>

\* Whether the wait of the function is over.
WaitIsOver == Len(signalChannel) > 0

\* sig := <-signalChannel
ExitReceive ==
  /\ pcExit = "wait"
  /\ WaitIsOver
  /\ sig' = Head(signalChannel)
  /\ signalChannel' = Tail(signalChannel)
  /\ pcExit' = "cleanup"
  /\ UNCHANGED <<notified, ctxDone, cleanupErr, cleanupRan, raised>>
  /\ UNCHANGED <<serverVars, connVars, stopVars, histVars, routeVars>>
  /\ UNCHANGED <<probeVars, frameVars, entryVars>>

\* err := f()
ExitCleanup(err) ==
  /\ pcExit = "cleanup"
  /\ cleanupErr' = err
  /\ cleanupRan' = cleanupRan + 1
  /\ pcExit' = "log"
  /\ UNCHANGED <<signalChannel, notified, ctxDone, sig, raised>>
  /\ UNCHANGED <<serverVars, connVars, stopVars, histVars, routeVars>>
  /\ UNCHANGED <<probeVars, frameVars, entryVars>>

\* The outcome is logged and the function returns.
ExitReturns ==
  /\ pcExit = "log"
  /\ pcExit' = "returned"
  /\ UNCHANGED <<signalChannel, notified, ctxDone, sig, cleanupErr, cleanupRan,
                 raised>>
  /\ UNCHANGED <<serverVars, connVars, stopVars, histVars, routeVars>>
  /\ UNCHANGED <<probeVars, frameVars, entryVars>>

InitExit ==
  /\ NoClients
  /\ hosted = "caller"
  /\ New
  /\ ReadyCalled("none")
  /\ lastRead = NoRead
  /\ ExitCalled(TRUE)

NextExit ==
  \/ ExitNotify
  \/ \E sg \in Signals : Raise(sg)
  \/ Cancel
  \/ ExitReceive
  \/ \E err \in CleanupResults : ExitCleanup(err)
  \/ ExitReturns

\* The goroutine of the function runs whenever it can.
SpecExit ==
  /\ InitExit
  /\ [][NextExit]_vars
  /\ WF_vars(ExitNotify)
  /\ WF_vars(ExitReceive)
  /\ WF_vars(\E err \in CleanupResults : ExitCleanup(err))
  /\ WF_vars(ExitReturns)

\* ============================================== the registry, by entry
\* Reference.md: s.activeClients is keyed by *Client.  The exported registry
\* operations are called with transport handles; each holds the registry
\* lock from its first statement to its return, so each is one step.

MaxClients == 3

\* &Client{Conn: conn, Mu: sync.Mutex{}}: the id stands for the pointer.
NewClient(id, conn) == [id |-> id, Conn |-> conn]

\* The entries of the registry that wrap conn.
EntriesOf(conn) == {client \in clients : client.Conn = conn}

\* AddActiveConnection(conn): Lock, allocate a Client, insert it, Unlock.
AddEntry(conn) ==
  /\ made < MaxClients
  /\ clients' = clients \cup {NewClient(made + 1, conn)}
  /\ made' = made + 1
  /\ UNCHANGED written
  /\ UNCHANGED <<serverVars, connVars, stopVars, histVars, routeVars>>
  /\ UNCHANGED <<probeVars, frameVars, exitVars>>

\* RemoveConnection(conn): Lock, collect the clients whose Conn is conn, lock
\* and unlock the Mu of each, delete them, Unlock.
RemoveEntries(conn) ==
  /\ EntriesOf(conn) # {}
  /\ clients' = clients \ EntriesOf(conn)
  /\ UNCHANGED <<made, written>>
  /\ UNCHANGED <<serverVars, connVars, stopVars, histVars, routeVars>>
  /\ UNCHANGED <<probeVars, frameVars, exitVars>>

\* BroadcastHandler: RLock, one WriteJSON on client.Conn per entry, RUnlock.
BroadcastEntries ==
  /\ clients # {}
  /\ written' = [conn \in Conns |-> Cardinality(EntriesOf(conn))]
  /\ UNCHANGED <<clients, made>>
  /\ UNCHANGED <<serverVars, connVars, stopVars, histVars, routeVars>>
  /\ UNCHANGED <<probeVars, frameVars, exitVars>>

\* TerminateConnections: RemoveConnection(client.Conn) for every entry.
TerminateEntries ==
  /\ clients # {}
  /\ clients' = {}
  /\ UNCHANGED <<made, written>>
  /\ UNCHANGED <<serverVars, connVars, stopVars, histVars, routeVars>>
  /\ UNCHANGED <<probeVars, frameVars, exitVars>>

InitRegistry ==
  /\ NoClients
  /\ hosted = "caller"
  /\ New
  /\ ReadyCalled("none")
  /\ lastRead = NoRead
  /\ ExitCalled(FALSE)

NextRegistry ==
  \/ \E conn \in Conns : AddEntry(conn)
  \/ \E conn \in Conns : RemoveEntries(conn)
  \/ BroadcastEntries
  \/ TerminateEntries

SpecRegistry == InitRegistry /\ [][NextRegistry]_vars

\* ================================================================ claims

\* The clients a broadcast of p has written or is writing to.
Attempted(p) == {t \in Conns : attempts[p][t] > 0}

\* C1: no two writes are ever in progress at the same time on the same
\* transport handle.
SingleActiveWriter ==
  \A t \in Conns : Cardinality(Writers(t)) <= 1

\* C3: when Remove has returned for a registered connection, its entry is out
\* of the registry and its transport handle is closed.
RemoveEvictsAndCloses ==
  \A c \in Conns : pc[c] = "done" => (c \notin activeClients /\ closed[c])

\* C4: while a broadcast is in flight, every connection it is writing to or
\* has yet to write to is still registered and open: a removal either waits
\* until the broadcast has released the registry (the connection gets the
\* message, then goes), or came first (the connection is not in the range).
BroadcastNeverWritesEvicted ==
  \A p \in Conns :
    /\ pc[p] \in {"bc_loop", "bc_w"} => todo[p] \subseteq activeClients
    /\ pc[p] = "bc_w" =>
         /\ writing[p].to \in activeClients
         /\ ~closed[writing[p].to]
         /\ muWriter = NoProc

\* C4 witness: a broadcast is writing to a connection whose read loop has
\* ended and whose removal waits for the registry lock.
RemovalWaitsForBroadcast ==
  \E p \in Conns, t \in Conns :
    /\ p # t
    /\ pc[p] = "bc_w"
    /\ writing[p].to = t
    /\ pc[t] = "rm_lock"

\* C5: a broadcast attempts exactly one write per registered connection, the
\* sender included, each carrying type "broadcast" and the payload received.
BroadcastWritesEachOnce ==
  \A p \in Conns :
    /\ (pc[p] = "bc_loop" /\ todo[p] = {}) =>
          attempts[p] = [t \in Conns |-> IF t \in activeClients THEN 1 ELSE 0]
    /\ pc[p] = "bc_w" =>
          /\ writing[p].type = "broadcast"
          /\ writing[p].payload = message[p]
          /\ message[p] \in Strings

\* C5 witness: a broadcast over two registered connections is complete, the
\* sender among those written to.
BroadcastComplete ==
  \E p \in Conns :
    /\ pc[p] = "bc_loop"
    /\ todo[p] = {}
    /\ Cardinality(activeClients) >= 2
    /\ attempts[p][p] = 1

\* C6: "messages sent" increases by one with every write that succeeds and
\* stays as it is on a write that fails.
SentCountsSuccessfulWrites ==
  [][\A c \in Conns :
       (writing[c] # NoWrite /\ writing'[c] = NoWrite) =>
          counter'.totalMessagesSent =
             counter.totalMessagesSent + (IF failed'[c] = 0 THEN 1 ELSE 0)]_vars

\* C7: a failed write does not end a broadcast: when a write of it has
\* failed, every registered connection has been written to or is still to be
\* written to, and the handler still holds its place in the loop (it goes on
\* to the remaining connections and then returns to the read loop).
BroadcastSurvivesFailure ==
  \A p \in Conns :
    (pc[p] \in {"bc_loop", "bc_w"} /\ failed[p] > 0) =>
        /\ todo[p] \cup Attempted(p) = activeClients
        /\ p \in muReaders

\* C7 witness: a broadcast is writing to a connection right after its write
\* to another connection failed.
BroadcastWritesAfterFailure ==
  \E p \in Conns : pc[p] = "bc_w" /\ failed[p] > 0

\* C8: Stop on a server never started returns the "not started" error and
\* changes nothing else.
StopBeforeStartChangesNothing ==
  [][(httpServer = "nil" /\ (pcStop' # pcStop \/ stopResult' # stopResult)) =>
        /\ stopResult' = "server has not been started"
        /\ pcStop' = "returned"
        /\ UNCHANGED <<serverVars, connVars>>]_vars

\* C8 witness: Stop was refused on a server that holds connections and has
\* counted messages.
StopRefusedWithConnections ==
  /\ stopResult = "server has not been started"
  /\ httpServer = "nil"
  /\ activeClients # {}
  /\ counter.totalMessagesSent > 0

\* C9: when Stop has returned after Start, every connection registered when
\* it was called is out of the registry and its handle is closed.
StopEvictsAndClosesAll ==
  (pcStop = "returned" /\ stopResult \in ShutdownResults) =>
     \A c \in stopSnapshot : c \notin activeClients /\ closed[c]

\* C2: a write begins only on a transport handle the server has not closed.
NoWriteAfterClose ==
  [][\A t \in Conns :
       (\/ inWrite'[t] > inWrite[t]
        \/ \E p \in Conns : writing'[p].to = t /\ writing[p].to # t) =>
          ~closed[t]]_vars

\* The health-check round trips completed so far: replies the server wrote
\* to a dialled connection, or GETs answered with status 200.
RoundTrips ==
  IF readyKind = "http" THEN succeeded ELSE counter.totalMessagesSent

\* C10 as stated: BlockUntilReady returns success only once a health-check
\* round trip has succeeded.
ReadyAfterRoundTrip ==
  readyResult = "nil" => RoundTrips >= 1

\* C10: BlockUntilReady makes at most 10 attempts; it returns success at the
\* first attempt whose dial and health-check write (or GET) succeed, without
\* a further attempt; it returns the "not ready" error after exactly 10
\* attempts that all failed.
ReadyWithinMaxRetries ==
  /\ tried <= MaxRetries
  /\ tried = readyI + succeeded + (IF pcReady = "write" THEN 1 ELSE 0)
  /\ succeeded <= 1
  /\ succeeded = 1 => (pcReady \in {"defer", "returned"} /\ readyResult = "nil")
  /\ readyResult = "nil" => succeeded = 1
  /\ readyResult = NotReady => (succeeded = 0 /\ tried = MaxRetries)
  /\ pcReady = "returned" => readyResult \in {"nil", NotReady}

\* C10 witness: BlockUntilReady returned success at its third attempt or
\* later, after a failed dial and a failed write.
ReadyAfterFailedAttempts ==
  /\ pcReady = "returned"
  /\ readyResult = "nil"
  /\ tried >= 3
  /\ \E c \in Conns : peerClosed[c]

\* A step in which conn.ReadMessage() returned to the read loop of c.
ReadReturned(c) ==
  /\ lastRead'.conn = c
  /\ \/ lastRead' # lastRead
     \/ counter'.totalMessagesReceived # counter.totalMessagesReceived

\* C11: every read error, expected or not, ends the read loop: the message
\* is not counted, no handler is invoked, no further read is attempted and the
\* deferred Remove of the connection is due.
ReadErrorEndsLoop ==
  [][\A c \in Conns :
       (ReadReturned(c) /\ lastRead'.err # "none") =>
          /\ pc'[c] = "rm_lock"
          /\ counter' = counter
          /\ writing'[c] = NoWrite]_vars

\* A step in which conn.ReadMessage() returned a frame to the read loop of c.
FrameRead(c) == ReadReturned(c) /\ lastRead'.err = "none"

\* C12: a JSON frame whose type is missing or is not a string is dropped
\* without a handler, and the read loop goes on to the next frame.
TypelessFrameIsDropped ==
  [][\A c \in Conns :
       (/\ FrameRead(c)
        /\ lastRead'.frame.json
        /\ lastRead'.frame.type.kind # "string") =>
          /\ pc'[c] = "read"
          /\ writing'[c] = NoWrite]_vars

\* C13: a frame that is not JSON invokes no handler and writes nothing;
\* "messages received" goes up by one and the read loop goes on.
NotJSONIsCountedAndDropped ==
  [][\A c \in Conns :
       (FrameRead(c) /\ ~lastRead'.frame.json) =>
          /\ pc'[c] = "read"
          /\ readErr'[c] = "none"
          /\ counter' = IncrementTotalMessagesReceived(counter)
          /\ UNCHANGED <<writing, attempts, message, todo, Mu, activeClients>>]_vars

\* C13 witness: the last frame read was not JSON, it was counted, nothing
\* was ever written and its connection is back at ReadMessage.
NotJSONDropped ==
  /\ lastRead.conn \in Conns
  /\ lastRead.err = "none"
  /\ ~lastRead.frame.json
  /\ pc[lastRead.conn] = "read"
  /\ counter.totalMessagesReceived = 1
  /\ counter.totalMessagesSent = 0

\* C14: a well-formed envelope whose type has no registered handler invokes
\* no handler and writes nothing; "messages sent" stays as it is and the read
\* loop goes on.
UnknownTypeIsDropped ==
  [][\A c \in Conns :
       (/\ FrameRead(c)
        /\ lastRead'.frame.json
        /\ lastRead'.frame.type.kind = "string"
        /\ lastRead'.frame.type.val \notin {"echo", "broadcast", "healthcheck"}) =>
          /\ pc'[c] = "read"
          /\ readErr'[c] = "none"
          /\ counter'.totalMessagesSent = counter.totalMessagesSent
          /\ UNCHANGED <<writing, attempts, message, todo, Mu, activeClients>>]_vars

\* C14 witness: the last frame read was an envelope of type "nope"; nothing
\* was ever sent and its connection is back at ReadMessage.
UnknownTypeDropped ==
  /\ lastRead.conn \in Conns
  /\ lastRead.err = "none"
  /\ lastRead.frame.json
  /\ lastRead.frame.type = Str("nope")
  /\ pc[lastRead.conn] = "read"
  /\ counter.totalMessagesSent = 0

\* C15: whenever the read loop of a registered connection exits, by whatever
\* path, Remove is invoked for it, and the connection is eventually out of the
\* registry.
EventuallyUnregistered ==
  \A c \in Conns : (pc[c] = "rm_lock") ~> (c \notin activeClients)

\* The writes of a handler that wrote once, to connection c.
OnceTo(c) == [t \in Conns |-> IF t = c THEN 1 ELSE 0]

\* C16: an envelope of type "echo" with a string payload makes the server
\* attempt exactly one write, on the sender's connection and on no other,
\* carrying type "echo" and the payload received; "messages received" goes up
\* by one when the frame is read and "messages sent" by one when the write
\* returns.
EchoRepliesOnce ==
  [][\A c \in Conns :
       /\ (/\ FrameRead(c)
           /\ lastRead'.frame.json
           /\ lastRead'.frame.type = Str("echo")
           /\ lastRead'.frame.payload.kind = "string") =>
             /\ pc'[c] = "echo_w"
             /\ writing'[c] = [to |-> c, type |-> "echo",
                               payload |-> lastRead'.frame.payload.val]
             /\ attempts'[c] = OnceTo(c)
             /\ counter' = [counter EXCEPT !.totalMessagesReceived = @ + 1]
       /\ (pc[c] = "echo_w" /\ pc'[c] = "echo_ret") =>
             /\ writing'[c] = NoWrite
             /\ attempts'[c] = OnceTo(c)
             /\ counter' = [counter EXCEPT !.totalMessagesSent = @ + 1]
       /\ (pc[c] = "echo_ret" /\ pc'[c] # "echo_ret") =>
             /\ pc'[c] = "read"
             /\ writing'[c] = NoWrite
             /\ counter' = counter]_vars

\* C16 witness: the echo handler of one connection has written its reply
\* while another connection is registered and was never written to.
EchoReplied ==
  \E c \in Conns, d \in Conns :
    /\ c # d
    /\ pc[c] = "echo_ret"
    /\ lastRead = ReadOf(c, "none", [json |-> TRUE, type |-> Str("echo"),
                                     payload |-> Str("hi")])
    /\ d \in activeClients
    /\ counter.totalMessagesReceived = 1
    /\ counter.totalMessagesSent = 1

\* C17: WaitForExitSignalThenCleanup calls the cleanup callback exactly once
\* and returns when an interrupt or termination signal arrives or when the
\* context is cancelled: cancelling the context with no signal still runs
\* the callback.
CleanupOnSignalOrCancel ==
  /\ (notified /\ ctxDone) ~> (cleanupRan = 1 /\ pcExit = "returned")
  /\ (notified /\ raised > 0) ~> (cleanupRan = 1 /\ pcExit = "returned")
  /\ [](cleanupRan <= 1)

\* C18: a write blocked on one slow peer delays only that peer: the other
\* peers of the same broadcast are still written to, and Stop still evicts
\* the other connections, while the slow write stays blocked.
SlowPeerDelaysOnlyItself ==
  \A t \in Conns \ {SlowPeer} :
    /\ \A p \in Conns :
         (pc[p] = "bc_w" /\ writing[p].to = SlowPeer /\ t \in todo[p])
            ~> (t \notin todo[p])
    /\ (pcStop = "term_loop" /\ t \in stopRange) ~> (t \notin activeClients)

\* C19: with every write coming to an end, every call of RemoveConnection,
\* by a read loop or by Stop, eventually returns, whatever broadcasts,
\* removals, additions and Stop run beside it.
RemoveAlwaysReturns ==
  /\ \A c \in Conns : (pc[c] \in {"rm_lock", "rm_hold"}) ~> (pc[c] = "done")
  /\ (pcStop = "term_hold") ~> (pcStop = "term_loop")

\* The goroutines whose range over s.activeClients is in progress: the
\* broadcasting handlers, and Stop while TerminateConnections has entries
\* yet to produce.
Ranging ==
  {p \in Conns : pc[p] \in {"bc_loop", "bc_w"}} \cup
  (IF pcStop \in {"term_loop", "term_hold"} /\ stopRange # {}
     THEN {StopProc} ELSE {})

\* The goroutines that hold a side of s.activeClientsMu.
LockHolders == muReaders \cup (IF muWriter = NoProc THEN {} ELSE {muWriter})

\* C20: every access to the registry map is made with the registry lock
\* held, so that no iteration over it overlaps an insertion or a deletion by
\* another goroutine, Stop / TerminateConnections included.
RegistryAccessUnderLock ==
  [][/\ Ranging \subseteq LockHolders
     /\ (Ranging # {} /\ activeClients' # activeClients) =>
           (Ranging = {muWriter'} \/ Ranging = {muWriter})]_vars

\* C21: Remove takes the write lock of the entry and waits for a write in
\* flight without holding the registry lock, which it holds only for the
\* deletion: while RemoveConnection, of a read loop or of Stop, is at the
\* locking of client.Mu and at wg.Wait(), it does not hold the registry lock.
RemoveWaitsOutsideRegistryLock ==
  /\ \A c \in Conns : pc[c] = "rm_hold" => muWriter # c
  /\ pcStop = "term_hold" => muWriter # StopProc

\* C22: a broadcast holds the read side of the registry lock only while it
\* collects the registered connections, and has released it before its first
\* write begins.
BroadcastWritesOutsideRegistryLock ==
  \A p \in Conns : pc[p] = "bc_w" => p \notin muReaders

\* C23: every successful upgrade inserts exactly one entry into the registry
\* and adds exactly one to "connections opened"; no counter ever decreases;
\* RemoveConnection, TerminateConnections and Stop leave the three counters
\* as they are.
UpgradeCountsOnce ==
  [][/\ \A c \in Conns :
          (pc[c] = "idle" /\ pc'[c] = "read") =>
             /\ c \notin activeClients
             /\ activeClients' = activeClients \cup {c}
             /\ counter' = [counter EXCEPT !.totalConnections = @ + 1]
     /\ counter'.totalConnections >= counter.totalConnections
     /\ counter'.totalMessagesSent >= counter.totalMessagesSent
     /\ counter'.totalMessagesReceived >= counter.totalMessagesReceived
     /\ (\/ \E c \in Conns : pc[c] \in {"rm_lock", "rm_hold"} /\ pc'[c] # pc[c]
         \/ pcStop' # pcStop
         \/ stopResult' # stopResult) => counter' = counter]_vars

\* C23 witness: Stop has returned after two upgrades and the removal of both
\* connections; the counters still hold the two connections and the messages.
CountersOutliveStop ==
  /\ pcStop = "returned"
  /\ stopResult \in ShutdownResults
  /\ activeClients = {}
  /\ counter.totalConnections = 2
  /\ counter.totalMessagesReceived > 0
  /\ counter.totalMessagesSent > 0

\* C24: a failed upgrade aborts only that attempt: no entry is added, no
\* counter changes, no read loop begins and no Remove is issued for it, and
\* the registered connections are left as they are.
FailedUpgradeChangesNothing ==
  [][\A c \in Conns :
       /\ (pc[c] = "idle" /\ pc'[c] = "refused") =>
             /\ UNCHANGED <<activeClients, counter, muWriter, muReaders, Mu>>
             /\ UNCHANGED <<writing, message, todo, closed, readErr>>
             /\ \A d \in Conns \ {c} : pc'[d] = pc[d]
       /\ pc[c] = "refused" =>
             /\ pc'[c] = "refused"
             /\ c \notin activeClients
             /\ writing[c] = NoWrite]_vars

\* C24 witness: an upgrade failed while a registered connection was inside
\* its echo handler; that connection is the only one registered and counted.
UpgradeRefusedBesideHandler ==
  \E c \in Conns, d \in Conns :
    /\ pc[c] = "refused"
    /\ pc[d] = "echo_w"
    /\ activeClients = {d}
    /\ counter.totalConnections = 1

HandlersRunOneAtATime ==
  [][\A c \in Conns :
       /\ ReadReturned(c) =>
             /\ pc[c] = "read"
             /\ writing[c] = NoWrite
             /\ attempts[c] = NoAttempts
             /\ todo[c] = {}
             /\ c \notin muReaders
       /\ (lastRead'.conn = c /\ pc'[c] \in {"echo_w", "echo_ret"}) =>
             /\ lastRead'.frame.type = Str("echo")
             /\ message'[c] = lastRead'.frame.payload.val
       /\ (lastRead'.conn = c /\ pc'[c] \in {"hc_w", "hc_ret"}) =>
             lastRead'.frame.type = Str("healthcheck")
       /\ (lastRead'.conn = c /\ pc'[c] \in {"bc_rlock", "bc_loop", "bc_w"}) =>
             /\ lastRead'.frame.type = Str("broadcast")
             /\ message'[c] = lastRead'.frame.payload.val]_vars

\* C26 witness: the only connection there is has read its second frame, a
\* health check, after the reply to its first frame was written and counted.
SecondFrameAfterFirstHandler ==
  \E c \in Conns :
    /\ activeClients = {c}
    /\ counter.totalConnections = 1
    /\ counter.totalMessagesReceived = 2
    /\ counter.totalMessagesSent = 1
    /\ lastRead.conn = c
    /\ lastRead.frame.type = Str("healthcheck")
    /\ pc[c] = "hc_w"

\* C27: the echo or the broadcast handler given a payload that is not a
\* string returns without a write to any connection and without a change of
\* "messages sent", and the read loop of the connection goes on.
NonStringPayloadIsDropped ==
  [][\A c \in Conns :
       (/\ FrameRead(c)
        /\ lastRead'.frame.json
        /\ lastRead'.frame.type \in {Str("echo"), Str("broadcast")}
        /\ lastRead'.frame.payload.kind # "string") =>
          /\ pc'[c] = "read"
          /\ readErr'[c] = "none"
          /\ counter'.totalMessagesSent = counter.totalMessagesSent
          /\ UNCHANGED <<writing, attempts, message, todo, Mu, muReaders,
                         activeClients>>]_vars

\* C27 witness: the last frame read was a broadcast envelope whose payload is
\* a number; two connections are registered, nothing was ever sent and the
\* sender is back at ReadMessage.
NonStringBroadcastDropped ==
  /\ lastRead.conn \in Conns
  /\ lastRead.err = "none"
  /\ lastRead.frame = [json |-> TRUE, type |-> Str("broadcast"),
                       payload |-> Num("7")]
  /\ pc[lastRead.conn] = "read"
  /\ Cardinality(activeClients) = 2
  /\ counter.totalMessagesSent = 0

\* C28: "messages received" is the number of frames read: it goes up by one
\* with every ReadMessage that returns a frame and stays as it is with every
\* ReadMessage that returns an error.
ReceivedCountsFramesRead ==
  [][\A c \in Conns :
       ReadReturned(c) =>
          counter'.totalMessagesReceived =
             counter.totalMessagesReceived +
                (IF lastRead'.err = "none" THEN 1 ELSE 0)]_vars

\* C29: once Stop has returned what Shutdown returned, the registry is
\* empty, whatever was upgraded while TerminateConnections ran or between
\* its return and the listener shutdown.
StopLeavesRegistryEmpty ==
  (pcStop = "returned" /\ stopResult \in ShutdownResults) =>
     activeClients = {}

\* Stop has returned what s.httpServer.Shutdown returned.
StopSucceeded == pcStop = "returned" /\ stopResult \in ShutdownResults

\* The connections TerminateConnections removed from the registry.
EvictedByStop == {c \in stopSnapshot : c \notin activeClients}

\* RootSocketHandler is not running for c: never upgraded, or returned.
ReadLoopOver(c) == pc[c] \in {"idle", "refused", "done"}

\* The read loop of c passes a frame to one of the WSConnHandlers.
HandlerInvoked(c) ==
  pc[c] = "read" /\ pc'[c] \in {"echo_w", "hc_w", "bc_rlock"}

\* C30: after Stop has returned successfully every read loop comes to an end
\* with no frame or close from a peer, and for a connection Stop evicted no
\* handler is invoked and no write is begun.
StopEndsReadLoops ==
  /\ StopSucceeded ~> (\A c \in Conns : ReadLoopOver(c))
  /\ [][StopSucceeded =>
          \A c \in EvictedByStop :
             ~HandlerInvoked(c) /\ attempts'[c] = attempts[c]]_vars

\* ================================================= the probe after its return
\* BlockUntilReady against the server, with what happens to the connections
\* it dialled once it has returned.

\* The connections BlockUntilReady dialled: the server upgraded them.
Probes == {c \in Conns : pc[c] # "idle"}

\* The dialer's handle is unreachable once BlockUntilReady has returned; the
\* runtime may collect it and close its descriptor, at no particular time.
ProbeCollected(c) ==
  /\ readyKind = "ws"
  /\ pcReady = "returned"
  /\ c \in Probes
  /\ ~peerClosed[c]
  /\ peerClosed' = [peerClosed EXCEPT ![c] = TRUE]
  /\ UNCHANGED <<readyKind, pcReady, readyI, readyConn, deferred, readyResult,
                 inbox, tried, succeeded>>
  /\ UNCHANGED <<serverVars, connVars, stopVars, histVars, routeVars>>
  /\ UNCHANGED <<frameVars, exitVars, entryVars>>

\* The read loop of a connection whose dialer's handle is closed: ReadMessage
\* returns the close as a *websocket.CloseError or a *net.OpError.
ProbeClosedRead(c, e) ==
  /\ ExpectedError(e)
  /\ ProbeReadFails(c, e)

NextProbe ==
  \/ Start
  \/ ReadyDialFails
  \/ \E c \in Conns : ReadyDial(c)
  \/ \E ok \in BOOLEAN : ReadyWrite(ok)
  \/ \E ok \in BOOLEAN : ReadyGet(ok)
  \/ ReadyExhausted
  \/ ReadyDeferred
  \/ ReadyReturns
  \/ \E c \in Conns : ProbeCollected(c)
  \/ \E c \in Conns : ProbeRead(c)
  \/ \E c \in Conns, e \in ReadErrors : ProbeClosedRead(c, e)
  \/ \E c \in Conns, ok \in BOOLEAN : ReplyWritten(c, ok)
  \/ \E c \in Conns : ReplyReturns(c)
  \/ \E c \in Conns : RemoveLock(c)
  \/ \E c \in Conns : RemoveDelete(c)

\* The goroutines of the server run: a frame or a close that has arrived is
\* read, a write ends, a removal goes on.  Nothing makes the runtime collect
\* a handle.
ProbeProgress ==
  \A c \in Conns :
     /\ WF_vars(ProbeRead(c))
     /\ WF_vars(\E e \in ReadErrors : ProbeClosedRead(c, e))
     /\ WF_vars(\E ok \in BOOLEAN : ReplyWritten(c, ok))
     /\ WF_vars(ReplyReturns(c))
     /\ WF_vars(RemoveLock(c))
     /\ WF_vars(RemoveDelete(c))

SpecProbe == InitReady /\ [][NextProbe]_vars /\ ProbeProgress

\* C31: once BlockUntilReady has returned, with nil or with an error, every
\* connection it dialled is eventually closed and out of the registry.
ProbesLeaveNothing ==
  (pcReady = "returned") ~>
     (\A c \in Probes : peerClosed[c] /\ c \notin activeClients)
====
